---- MODULE Spec2Model ----
(***************************************************************************)
(* A model of the typed_id crate: TypedId<I, T>, a wrapper around an       *)
(* identifier of type I carrying a phantom tag T (src/src/lib.rs), and its *)
(* serde bridge (src/src/serde.rs).  I is instantiated with u32, the type  *)
(* the crate's own tests use; T ranges over the tests' Customer and Order. *)
(*                                                                         *)
(* Text is modelled as a sequence of one-character strings, so formatting  *)
(* and parsing are computed character by character.                        *)
(***************************************************************************)
EXTENDS Integers, Sequences, FiniteSets, TLC

VARIABLES customer, order, res, hasher, map, json, new_map

vars == <<customer, order, res, hasher, map, json, new_map>>

(* ---- bounds ---- *)
MaxOrders == 2
MaxWidth == 5
MaxWrites == 2
MaxCap == 3
MaxEntries == 2

(* The raw identifiers the model draws from: one, two and three decimal    *)
(* digits, more than one byte, and the tests' 42.                          *)
RawIds == {0, 7, 42, 300}

(* The owner types of the tests. *)
Tags == {"Customer", "Order"}

(* ------------------------------------------------------------------ *)
(* The wrapper                                                          *)
(* ------------------------------------------------------------------ *)

(* struct TypedId<I, T>(pub I, PhantomData<T>): field 0 is `id`; the    *)
(* type parameter T is kept as `marker` so that the model can tell the  *)
(* types TypedId<u32, Customer> and TypedId<u32, Order> apart.          *)
TypedId(id, T) == [id |-> id, marker |-> T]

(* TypedId::new *)
new(id, T) == TypedId(id, T)

(* A faulty From: it wraps a different value. *)
from_off_by_one(other, T) == TypedId(other + 1, T)
(* impl From<I> for TypedId<I, T> *)
from(other, T) == TypedId(other, T)

(* <u32 as Default>::default() *)
u32_default == 0

(* impl Default for TypedId<I, T> *)
default(T) == TypedId(u32_default, T)

(* A faulty Deref: it does not return field 0. *)
deref_zero(self) == 0
(* impl Deref for TypedId<I, T> *)
deref(self) == self.id

(* The blanket impl From<T> for T, used when convert's target is I.   *)
u32_from(v) == v

(* The destination types of convert in the model: either tag's wrapper *)
(* or the raw type itself. *)
Targets == Tags \cup {"u32"}

(* B::from(v) for a destination type B. *)
B_from(B, v) == IF B = "u32" THEN u32_from(v) ELSE from(v, B)

(* A faulty convert: it keeps the source tag. *)
convert_keep_tag(self, B) == IF B = "u32" THEN self.id ELSE self
(* TypedId::convert *)
convert(self, B) == B_from(B, self.id)

(* ------------------------------------------------------------------ *)
(* Comparison                                                           *)
(* ------------------------------------------------------------------ *)

(* u32's PartialEq, Ord and PartialOrd. *)
u32_eq(a, b) == a = b
u32_cmp(a, b) == IF a < b THEN "Less" ELSE IF a = b THEN "Equal" ELSE "Greater"
Some(x) == [some |-> TRUE, val |-> x]
u32_partial_cmp(a, b) == Some(u32_cmp(a, b))

(* impl PartialEq for TypedId<I, T> *)
eq(self, other) == u32_eq(self.id, other.id)

(* impl PartialOrd for TypedId<I, T> *)
partial_cmp(self, other) == u32_partial_cmp(self.id, other.id)

(* A faulty Ord: the operands are swapped. *)
cmp_swapped(self, other) == u32_cmp(other.id, self.id)
(* impl Ord for TypedId<I, T> *)
cmp(self, other) == u32_cmp(self.id, other.id)

(* Customer::has_order of the tests *)
has_order(self, o_id) ==
    \E i \in 1..Len(self.orders) : eq(self.orders[i], o_id)

(* ------------------------------------------------------------------ *)
(* Formatting                                                           *)
(* ------------------------------------------------------------------ *)

None == [some |-> FALSE]

DigitChar == <<"0", "1", "2", "3", "4", "5", "6", "7", "8", "9">>

(* The decimal digits of v, most significant first. *)
RECURSIVE u32_to_chars(_)
u32_to_chars(v) ==
    IF v < 10 THEN <<DigitChar[v + 1]>>
    ELSE u32_to_chars(v \div 10) \o <<DigitChar[(v % 10) + 1]>>

RECURSIVE Spaces(_)
Spaces(n) == IF n <= 0 THEN <<>> ELSE <<" ">> \o Spaces(n - 1)

(* The formatting options a caller's format string sets: {}, {:5}, {:#?}. *)
Formatters ==
    [width : {None} \cup {Some(w) : w \in 1..MaxWidth}, alternate : BOOLEAN]

(* The options of a bare "{}" or "{:?}". *)
DefaultFormatter == [width |-> None, alternate |-> FALSE]

(* Formatter::pad_integral for a non-negative number: right-aligned,   *)
(* space-filled to the requested width. *)
pad_integral(f, text) ==
    IF ~f.width.some \/ Len(text) >= f.width.val THEN text
    ELSE Spaces(f.width.val - Len(text)) \o text

(* u32's Display and Debug (no hex flag in the model: Debug is Display). *)
u32_Display_fmt(v, f) == pad_integral(f, u32_to_chars(v))
u32_Debug_fmt(v, f) == u32_Display_fmt(v, f)

(* write!(f, "{}", x): the arguments are formatted under the options of *)
(* the format string "{}", not under those of f.                        *)
write_fmt_display(f, v) == u32_Display_fmt(v, DefaultFormatter)

(* impl fmt::Display for TypedId<I, T> *)
Display_fmt(self, f) == write_fmt_display(f, self.id)

(* The name the Debug impl passes to debug_tuple. *)
DebugName == <<"T", "y", "p", "e", "d", "I", "d">>

(* f.debug_tuple(name).field(value).finish() with one field whose debug *)
(* text is one line: the pretty form indents the field by four spaces.  *)
debug_tuple(f, name, field) ==
    IF f.alternate
    THEN name \o <<"(", "\n">> \o Spaces(4) \o field \o <<",", "\n">> \o <<")">>
    ELSE name \o <<"(">> \o field \o <<")">>

(* A faulty Debug: the raw value without the wrapper name. *)
Debug_fmt_bare(self, f) == u32_Debug_fmt(self.id, f)
(* impl fmt::Debug for TypedId<I, T> *)
Debug_fmt(self, f) == debug_tuple(f, DebugName, u32_Debug_fmt(self.id, f))

(* ------------------------------------------------------------------ *)
(* Hashing                                                              *)
(* ------------------------------------------------------------------ *)

(* u32::to_ne_bytes on a little-endian target. *)
to_ne_bytes(v) ==
    <<v % 256, (v \div 256) % 256, (v \div 65536) % 256, (v \div 16777216) % 256>>

(* Hasher::write: the hasher's state is the bytes it has been fed. *)
write(state, bytes) == state \o bytes

(* Hasher::write_u32 and u32's Hash *)
write_u32(state, v) == write(state, to_ne_bytes(v))
u32_hash(v, state) == write_u32(state, v)

(* A sample Hasher::finish: a 16-bit multiplicative fold of the bytes. *)
RECURSIVE finish(_)
finish(state) ==
    IF state = <<>> THEN 0
    ELSE (finish(SubSeq(state, 1, Len(state) - 1)) * 31 + state[Len(state)] + 1) % 65536

(* A faulty Hash: it also feeds the hasher a byte for the tag. *)
hash_with_tag(self, state) ==
    u32_hash(self.id, write(state, <<IF self.marker = "Customer" THEN 1 ELSE 2>>))
(* impl Hash for TypedId<I, T> *)
hash(self, state) == u32_hash(self.id, state)

(* ------------------------------------------------------------------ *)
(* Serialization                                                        *)
(* ------------------------------------------------------------------ *)

(* Result::Ok and Result::Err *)
Ok(x) == [ok |-> TRUE, val |-> x]
Err(e) == [ok |-> FALSE, err |-> e]

(* The JSON tokens the model writes and reads: a number and a string, *)
(* each with its text. *)
JNum(s) == [t |-> "num", s |-> s]
JStr(s) == [t |-> "str", s |-> s]

(* A serializer: it writes a value or an object key, into an unbounded *)
(* buffer or into one with room for `cap` characters. *)
Serializers ==
    {[pos |-> p, bounded |-> FALSE, cap |-> 0] : p \in {"value", "key"}}
        \cup {[pos |-> p, bounded |-> TRUE, cap |-> c] : p \in {"value", "key"}, c \in 0..MaxCap}

ValueSerializer == [pos |-> "value", bounded |-> FALSE, cap |-> 0]
KeySerializer == [pos |-> "key", bounded |-> FALSE, cap |-> 0]

(* The error of a writer that is full. *)
IoError == [kind |-> "io", msg |-> "failed to write whole buffer"]

(* Serializer::serialize_u32 of the JSON serializer: decimal digits,   *)
(* quoted when the number is an object key. *)
serialize_u32(ser, v) ==
    LET text == u32_to_chars(v)
        need == Len(text) + (IF ser.pos = "key" THEN 2 ELSE 0)
    IN  IF ser.bounded /\ need > ser.cap THEN Err(IoError)
        ELSE Ok(IF ser.pos = "key" THEN JStr(text) ELSE JNum(text))

(* u32's Serialize *)
u32_serialize(v, ser) == serialize_u32(ser, v)

(* A faulty Serialize: the value inside a named envelope. *)
serialize_newtype(self, ser) ==
    LET r == u32_serialize(self.id, ser)
    IN  IF r.ok THEN Ok([t |-> "newtype", name |-> "TypedId", inner |-> r.val]) ELSE r
(* impl Serialize for TypedId<I, T> *)
serialize(self, ser) == u32_serialize(self.id, ser)

Digits == {DigitChar[i] : i \in 1..10}
DigitValue(c) == CHOOSE d \in 0..9 : DigitChar[d + 1] = c

(* The number a run of decimal digits denotes. *)
RECURSIVE parse_digits(_)
parse_digits(s) ==
    IF Len(s) = 0 THEN 0
    ELSE parse_digits(SubSeq(s, 1, Len(s) - 1)) * 10 + DigitValue(s[Len(s)])

(* u32::MAX, 4294967295, as text: a number is compared with it digit by *)
(* digit. *)
U32MaxChars == <<"4", "2", "9", "4", "9", "6", "7", "2", "9", "5">>

RECURSIVE chars_greater(_, _)
chars_greater(a, b) ==
    IF Len(a) = 0 THEN FALSE
    ELSE IF DigitValue(a[1]) # DigitValue(b[1]) THEN DigitValue(a[1]) > DigitValue(b[1])
    ELSE chars_greater(Tail(a), Tail(b))

exceeds_u32(s) ==
    Len(s) > Len(U32MaxChars) \/ (Len(s) = Len(U32MaxChars) /\ chars_greater(s, U32MaxChars))

invalid_type(tok) == [kind |-> "invalid_type", unexpected |-> tok, expected |-> "u32"]
invalid_value(tok) == [kind |-> "invalid_value", unexpected |-> tok, expected |-> "u32"]
syntax_error(tok) == [kind |-> "syntax", unexpected |-> tok, expected |-> "u32"]

(* The text of a number read as a u32. *)
number_as_u32(tok, s) ==
    IF Len(s) = 0 THEN Err(syntax_error(tok))
    ELSE IF s[1] = "-" /\ Len(s) > 1 /\ \A i \in 2..Len(s) : s[i] \in Digits
        THEN Err(invalid_value(tok))
    ELSE IF \E i \in 1..Len(s) : s[i] \notin Digits
        THEN (IF s[1] \in Digits /\ \A i \in 1..Len(s) : s[i] \in Digits \cup {"."}
              THEN Err(invalid_type(tok)) ELSE Err(syntax_error(tok)))
    ELSE IF Len(s) > 1 /\ s[1] = "0" THEN Err(syntax_error(tok))
    ELSE IF exceeds_u32(s) THEN Err(invalid_value(tok))
    ELSE Ok(parse_digits(s))

(* A deserializer positioned on one token, in value or key position. *)
(* Deserializer::deserialize_u32 of the JSON deserializer: a value must *)
(* be a number, a key is a string holding one. *)
deserialize_u32(d) ==
    IF d.pos = "key"
    THEN (IF d.tok.t # "str" THEN Err(syntax_error(d.tok))
          ELSE LET r == number_as_u32(d.tok, d.tok.s)
               IN  IF r.ok THEN r ELSE Err(invalid_type(d.tok)))
    ELSE IF d.tok.t = "num" THEN number_as_u32(d.tok, d.tok.s)
    ELSE Err(invalid_type(d.tok))

(* u32's Deserialize *)
u32_deserialize(d) == deserialize_u32(d)

(* A faulty Deserialize: it replaces the error of the raw decoding. *)
deserialize_rewrap(d, T) ==
    LET r == u32_deserialize(d)
    IN  IF r.ok THEN Ok(from(r.val, T)) ELSE Err([kind |-> "custom", msg |-> "TypedId"])
(* impl Deserialize for TypedId<I, T>: I::deserialize(d).map(|id| id.into()) *)
deserialize(d, T) ==
    LET r == u32_deserialize(d)
    IN  IF r.ok THEN Ok(from(r.val, T)) ELSE r

(* The record of the serde test: struct Customer { name: String, id:  *)
(* CustomerId }, with the derived PartialEq, Serialize and Deserialize. *)
Customer(name, id) == [name |-> name, id |-> id]

Customer_eq(a, b) == a.name = b.name /\ eq(a.id, b.id)

Customer_serialize(c) ==
    LET r == serialize(c.id, ValueSerializer)
    IN  IF r.ok THEN Ok([t |-> "obj", name |-> JStr(c.name), id |-> r.val]) ELSE r

Customer_deserialize(tok) ==
    IF tok.t # "obj" THEN Err([kind |-> "invalid_type", unexpected |-> tok, expected |-> "struct Customer"])
    ELSE IF tok.name.t # "str" THEN Err([kind |-> "invalid_type", unexpected |-> tok.name, expected |-> "a string"])
    ELSE LET r == deserialize([pos |-> "value", tok |-> tok.id], "Customer")
         IN  IF r.ok THEN Ok(Customer(tok.name.s, r.val)) ELSE r

(* HashMap<CustomerId, Customer>: a set of entries with keys distinct  *)
(* under the key's Eq. *)
Entry(k, v) == [k |-> k, v |-> v]
insert(m, k, v) == {e \in m : ~eq(e.k, k)} \cup {Entry(k, v)}

(* HashMap's PartialEq *)
map_eq(a, b) ==
    /\ Cardinality(a) = Cardinality(b)
    /\ \A e \in a : \E g \in b : eq(g.k, e.k) /\ Customer_eq(g.v, e.v)

(* The orders in which a HashMap may yield its entries. *)
Orderings(m) ==
    {s \in [1..Cardinality(m) -> m] : \A i, j \in 1..Cardinality(m) : i # j => s[i] # s[j]}

(* serde_json::to_string(&map), the entries taken in the order `ents`: *)
(* a JSON object, each member a key and a Customer object. *)
RECURSIVE serialize_entries(_)
serialize_entries(ents) ==
    IF Len(ents) = 0 THEN Ok(<<>>)
    ELSE LET init == serialize_entries(SubSeq(ents, 1, Len(ents) - 1))
             e == ents[Len(ents)]
             k == serialize(e.k, KeySerializer)
             v == Customer_serialize(e.v)
         IN  IF ~init.ok THEN init
             ELSE IF ~k.ok THEN k
             ELSE IF k.val.t # "str" THEN Err([kind |-> "key_must_be_a_string", msg |-> "key must be a string"])
             ELSE IF ~v.ok THEN v
             ELSE Ok(Append(init.val, [key |-> k.val, value |-> v.val]))

to_string(ents) == serialize_entries(ents)

(* serde_json::from_str::<HashMap<CustomerId, Customer>>(&json) *)
RECURSIVE deserialize_entries(_)
deserialize_entries(members) ==
    IF Len(members) = 0 THEN Ok({})
    ELSE LET init == deserialize_entries(SubSeq(members, 1, Len(members) - 1))
             m == members[Len(members)]
             k == deserialize([pos |-> "key", tok |-> m.key], "Customer")
             v == Customer_deserialize(m.value)
         IN  IF ~init.ok THEN init
             ELSE IF ~k.ok THEN k
             ELSE IF ~v.ok THEN v
             ELSE Ok(insert(init.val, k.val, v.val))

from_str(members) == deserialize_entries(members)

(* The tokens the model hands a deserializer: the encodings of the raw *)
(* ids as values and as keys, and inputs that are no u32. *)
BadTokens ==
    { JNum(<<"-", "1">>), JNum(<<"4", "2", "9", "4", "9", "6", "7", "2", "9", "6">>),
      JNum(<<"1", ".", "5">>), JNum(<<"0", "7">>), JStr(<<"a">>), JStr(<<>>),
      [t |-> "null", s |-> <<>>] }

Tokens ==
    {JNum(u32_to_chars(v)) : v \in RawIds} \cup {JStr(u32_to_chars(v)) : v \in RawIds}
        \cup BadTokens

Deserializers == [pos : {"value", "key"}, tok : Tokens]

(* ------------------------------------------------------------------ *)
(* State                                                                *)
(* ------------------------------------------------------------------ *)

NoRes == [op |-> "none"]

Init ==
    /\ customer = [id |-> default("Customer"), orders |-> <<>>]
    /\ order = [id |-> default("Order")]
    /\ res = NoRes
    /\ hasher = <<>>
    /\ map = {}
    /\ json = [t |-> "none"]
    /\ new_map = [t |-> "none"]

(* let customer = Customer { id: id.into(), orders: Vec::new() }, or the *)
(* same with TypedId::new(id) *)
MakeCustomer(v, how) ==
    /\ customer' = [id |-> IF how = "new" THEN new(v, "Customer") ELSE from(v, "Customer"),
                    orders |-> <<>>]
    /\ res' = [op |-> "make", how |-> how, arg |-> v, out |-> customer'.id,
               other |-> IF how = "new" THEN from(v, "Customer") ELSE new(v, "Customer"),
               read |-> deref(customer'.id), field0 |-> customer'.id.id]
    /\ UNCHANGED <<order, hasher, map, json, new_map>>

(* let order = Order { id: id.into() } *)
MakeOrder(v, how) ==
    /\ order' = [id |-> IF how = "new" THEN new(v, "Order") ELSE from(v, "Order")]
    /\ res' = [op |-> "make", how |-> how, arg |-> v, out |-> order'.id,
               other |-> IF how = "new" THEN from(v, "Order") ELSE new(v, "Order"),
               read |-> deref(order'.id), field0 |-> order'.id.id]
    /\ UNCHANGED <<customer, hasher, map, json, new_map>>

(* customer.orders.push(order.id) *)
PushOrder ==
    /\ Len(customer.orders) < MaxOrders
    /\ customer' = [customer EXCEPT !.orders = Append(@, order.id)]
    /\ res' = [op |-> "push"]
    /\ UNCHANGED <<order, hasher, map, json, new_map>>

(* *customer.id, *order.id, and the field access .0 *)
Deref(w) ==
    /\ res' = [op |-> "deref", self |-> w, out |-> deref(w), field0 |-> w.id]
    /\ UNCHANGED <<customer, order, hasher, map, json, new_map>>

(* customer.id.convert() into a destination type B *)
Convert(B) ==
    /\ res' = [op |-> "convert", self |-> customer.id, target |-> B,
               out |-> convert(customer.id, B)]
    /\ UNCHANGED <<customer, order, hasher, map, json, new_map>>

(* let b: TypedId<u32, Order> = a.convert(); let a2: TypedId<u32, Customer> *)
(* = b.convert(); *)
ConvertBack ==
    /\ res' = [op |-> "convert_back", self |-> customer.id,
               hop |-> convert(customer.id, "Order"),
               out |-> convert(convert(customer.id, "Order"), "Customer"),
               equal |-> eq(convert(convert(customer.id, "Order"), "Customer"), customer.id)]
    /\ UNCHANGED <<customer, order, hasher, map, json, new_map>>

(* customer.has_order(order.id), customer.has_order(id.into()) and      *)
(* customer.has_order(customer.id.convert()) *)
HasOrder(o_id, via) ==
    /\ res' = [op |-> "has_order", via |-> via, arg |-> o_id,
               orders |-> customer.orders, out |-> has_order(customer, o_id)]
    /\ UNCHANGED <<customer, order, hasher, map, json, new_map>>

(* a == b, a.partial_cmp(&b), a.cmp(&b) for two ids of the same tag: the *)
(* compiler accepts no other pair *)
Compare(a, b) ==
    /\ a.marker = b.marker
    /\ res' = [op |-> "compare", lhs |-> a, rhs |-> b, eq |-> eq(a, b),
               partial_cmp |-> partial_cmp(a, b), cmp |-> cmp(a, b)]
    /\ UNCHANGED <<customer, order, hasher, map, json, new_map>>

(* The typed ids the program holds. *)
Held == {customer.id, order.id} \cup {customer.orders[i] : i \in 1..Len(customer.orders)}

Next ==
    \/ \E v \in RawIds, how \in {"new", "into"} : MakeCustomer(v, how)
    \/ \E v \in RawIds, how \in {"new", "into"} : MakeOrder(v, how)
    \/ PushOrder
    \/ \E w \in Held : Deref(w)
    \/ \E B \in Targets : Convert(B)
    \/ ConvertBack
    \/ HasOrder(order.id, "order.id")
    \/ \E v \in RawIds : HasOrder(from(v, "Order"), "into")
    \/ HasOrder(convert(customer.id, "Order"), "convert")
    \/ \E a \in Held : \E b \in Held \cup {from(v, a.marker) : v \in RawIds} : Compare(a, b)

Spec == Init /\ [][Next]_vars

(* t_id.to_string(), format!("{t_id}"), format!("{t_id:5}") beside the  *)
(* same format of the raw id *)
Display(w, f) ==
    /\ res' = [op |-> "display", self |-> w, f |-> f, out |-> Display_fmt(w, f),
               raw |-> u32_Display_fmt(w.id, f)]
    /\ UNCHANGED <<customer, order, hasher, map, json, new_map>>

(* format!("{t_id:?}"), format!("{t_id:#?}") *)
Debug(w, f) ==
    /\ res' = [op |-> "debug", self |-> w, f |-> f, out |-> Debug_fmt(w, f),
               raw |-> u32_Debug_fmt(w.id, f)]
    /\ UNCHANGED <<customer, order, hasher, map, json, new_map>>

NextFmt ==
    \/ \E v \in RawIds, how \in {"new", "into"} : MakeCustomer(v, how)
    \/ \E v \in RawIds, how \in {"new", "into"} : MakeOrder(v, how)
    \/ \E w \in Held, f \in Formatters : Display(w, f)
    \/ \E w \in Held, f \in Formatters : Debug(w, f)

SpecFmt == Init /\ [][NextFmt]_vars

(* id.hash(&mut state) for a typed id *)
HashId(w) ==
    /\ Len(hasher) < 4 * MaxWrites
    /\ hasher' = hash(w, hasher)
    /\ res' = [op |-> "hash", self |-> w, before |-> hasher, after |-> hasher',
               raw |-> u32_hash(w.id, hasher)]
    /\ UNCHANGED <<customer, order, map, json, new_map>>

(* v.hash(&mut state) for a raw id *)
HashRaw(v) ==
    /\ Len(hasher) < 4 * MaxWrites
    /\ hasher' = u32_hash(v, hasher)
    /\ res' = [op |-> "hash_raw", arg |-> v]
    /\ UNCHANGED <<customer, order, map, json, new_map>>

(* A fresh hasher. *)
NewHasher ==
    /\ hasher' = <<>>
    /\ res' = [op |-> "new_hasher"]
    /\ UNCHANGED <<customer, order, map, json, new_map>>

NextHash ==
    \/ \E v \in RawIds, how \in {"new", "into"} : MakeCustomer(v, how)
    \/ \E v \in RawIds, how \in {"new", "into"} : MakeOrder(v, how)
    \/ \E w \in Held : HashId(w)
    \/ \E v \in RawIds : HashRaw(v)
    \/ NewHasher

SpecHash == Init /\ [][NextHash]_vars

(* map.insert(i.into(), Customer { name: i.to_string(), id: j.into() }) *)
(* while the map of the test is collected *)
Insert(i, j) ==
    /\ json.t = "none"
    /\ \/ Cardinality(map) < MaxEntries
       \/ \E e \in map : eq(e.k, from(i, "Customer"))
    /\ map' = insert(map, from(i, "Customer"),
                     Customer(u32_to_chars(i), from(j, "Customer")))
    /\ res' = [op |-> "insert"]
    /\ UNCHANGED <<customer, order, hasher, json, new_map>>

(* let json = serde_json::to_string(&map) *)
Encode(ents) ==
    /\ json.t = "none"
    /\ json' = [t |-> "done", r |-> to_string(ents)]
    /\ res' = [op |-> "encode"]
    /\ UNCHANGED <<customer, order, hasher, map, new_map>>

(* let new_map = serde_json::from_str(&json) *)
Decode ==
    /\ json.t = "done"
    /\ json.r.ok
    /\ new_map.t = "none"
    /\ new_map' = [t |-> "done", r |-> from_str(json.r.val)]
    /\ res' = [op |-> "decode", equal |-> new_map'.r.ok /\ map_eq(new_map'.r.val, map)]
    /\ UNCHANGED <<customer, order, hasher, map, json>>

(* The test starts over with an empty map. *)
Restart ==
    /\ json.t = "done"
    /\ map' = {}
    /\ json' = [t |-> "none"]
    /\ new_map' = [t |-> "none"]
    /\ res' = [op |-> "restart"]
    /\ UNCHANGED <<customer, order, hasher>>

(* id.serialize(serializer) beside the same call on the raw id *)
SerializeId(w, ser) ==
    /\ res' = [op |-> "serialize", self |-> w, ser |-> ser, out |-> serialize(w, ser),
               raw |-> u32_serialize(w.id, ser)]
    /\ UNCHANGED <<customer, order, hasher, map, json, new_map>>

(* TypedId::<u32, T>::deserialize(deserializer) beside u32::deserialize *)
DeserializeId(d, T) ==
    /\ res' = [op |-> "deserialize", d |-> d, tag |-> T, out |-> deserialize(d, T),
               raw |-> u32_deserialize(d)]
    /\ UNCHANGED <<customer, order, hasher, map, json, new_map>>

NextSerde ==
    \/ \E v \in RawIds, how \in {"new", "into"} : MakeCustomer(v, how)
    \/ \E w \in Held, ser \in Serializers : SerializeId(w, ser)
    \/ \E d \in Deserializers, T \in Tags : DeserializeId(d, T)

SpecSerde == Init /\ [][NextSerde]_vars

NextMap ==
    \/ \E i \in RawIds, j \in RawIds : Insert(i, j)
    \/ \E ents \in Orderings(map) : Encode(ents)
    \/ Decode
    \/ Restart

SpecMap == Init /\ [][NextMap]_vars

(* ------------------------------------------------------------------ *)
(* Properties                                                           *)
(* ------------------------------------------------------------------ *)

(* C1: wrapping a raw value v by TypedId::new or by From<I> and reading *)
(* it back through deref or field .0 yields exactly v, and new and From *)
(* produce the same wrapper. *)
C1_WrapReadBack ==
    /\ res.op = "make" =>
        /\ res.read = res.arg
        /\ res.field0 = res.arg
        /\ res.out = res.other
    /\ res.op = "deref" => res.out = res.field0

C1_Witness ==
    /\ res.op = "make" /\ res.how = "into" /\ res.arg = 42
    /\ res.out.marker = "Order" /\ res.read = 42

(* C2: every comparison of two typed ids of one tag returns what the   *)
(* same comparison of the two raw values returns: eq is true iff the   *)
(* raw values are equal, cmp is their order, partial_cmp is Some of it. *)
C2_CompareMirrorsRaw ==
    res.op = "compare" =>
        /\ res.eq <=> (res.lhs.id = res.rhs.id)
        /\ (res.cmp = "Less") <=> (res.lhs.id < res.rhs.id)
        /\ (res.cmp = "Equal") <=> (res.lhs.id = res.rhs.id)
        /\ (res.cmp = "Greater") <=> (res.lhs.id > res.rhs.id)
        /\ res.partial_cmp = [some |-> TRUE, val |-> res.cmp]

C2_Witness ==
    /\ res.op = "compare" /\ res.lhs.marker = "Customer"
    /\ res.lhs.id = 42 /\ res.rhs.id = 300 /\ res.cmp = "Less" /\ ~res.eq

C5_ConvertRoundTrip ==
    res.op = "convert_back" =>
        /\ res.hop = [id |-> res.self.id, marker |-> "Order"]
        /\ res.out = res.self
        /\ res.equal

C5_Witness ==
    /\ res.op = "convert_back" /\ res.self = [id |-> 42, marker |-> "Customer"]
    /\ res.hop.marker = "Order" /\ res.equal

(* C6: hashing a typed id feeds the hasher exactly the bytes hashing   *)
(* the raw value feeds it, whatever the hasher's state and the tag, so *)
(* the two finish with the same hash. *)
C6_HashIsRawHash ==
    res.op = "hash" =>
        /\ res.after = res.raw
        /\ res.after = res.before \o to_ne_bytes(res.self.id)
        /\ finish(res.after) = finish(res.raw)

C6_Witness ==
    /\ res.op = "hash" /\ res.self = [id |-> 300, marker |-> "Order"]
    /\ Len(res.before) = 4 /\ res.after = res.before \o <<44, 1, 0, 0>>

(* The members serde_json writes for the entries of a map, were its    *)
(* keys and id fields bare u32 values. *)
BareMembers(m) ==
    { [key |-> JStr(u32_to_chars(e.k.id)),
       value |-> [t |-> "obj", name |-> JStr(e.v.name), id |-> JNum(u32_to_chars(e.v.id.id))]]
      : e \in m }

(* C7: a typed id is encoded as its bare raw value (a key as the quoted *)
(* digits, a field as the digits) and decoded by decoding a u32 and    *)
(* wrapping it, so a map from customer ids to records, encoded and     *)
(* decoded, equals the original. *)
C7_MapRoundTrip ==
    /\ json.t = "done" =>
        /\ json.r.ok
        /\ Len(json.r.val) = Cardinality(map)
        /\ {json.r.val[i] : i \in 1..Len(json.r.val)} = BareMembers(map)
    /\ new_map.t = "done" =>
        /\ new_map.r.ok
        /\ new_map.r.val = map
        /\ map_eq(new_map.r.val, map)
    /\ res.op = "decode" => res.equal

C7_Witness ==
    /\ new_map.t = "done" /\ new_map.r.ok /\ Cardinality(new_map.r.val) = 2
    /\ \E e \in new_map.r.val :
        e.k = [id |-> 42, marker |-> "Customer"] /\ e.v.id.id = 300
    /\ json.r.val[1].key = JStr(<<"4", "2">>)
    /\ json.r.val[1].value.id = JNum(<<"3", "0", "0">>)

(* C8: deserializing a typed id fails exactly when decoding the raw    *)
(* value fails, with the same error and no wrapper; when decoding the  *)
(* raw value succeeds it yields the wrapper of that value; serializing *)
(* fails exactly when, and as, serializing the raw value fails. *)
C8_ErrorsPropagateUnchanged ==
    /\ res.op = "deserialize" =>
        /\ res.raw.ok => res.out = [ok |-> TRUE, val |-> [id |-> res.raw.val, marker |-> res.tag]]
        /\ ~res.raw.ok => res.out = res.raw
    /\ res.op = "serialize" => res.out = res.raw

C8_Witness ==
    /\ res.op = "deserialize" /\ ~res.raw.ok /\ res.raw.err.kind = "invalid_value"
    /\ ~res.out.ok /\ res.out.err = res.raw.err

(* C9 as stated: the debug text of the wrapper of 42 is "TaggedId(42)". *)
C9_DebugNamedTaggedId ==
    (res.op = "debug" /\ res.self.id = 42 /\ res.f = DefaultFormatter) =>
        res.out = <<"T", "a", "g", "g", "e", "d", "I", "d", "(", "4", "2", ")">>

(* C9, amended: the debug text of a typed id is the name TypedId and, in *)
(* parentheses, the debug text of the raw value (on a line of its own, *)
(* indented and followed by a comma, in the pretty form); the wrapper  *)
(* of 42 gives "TypedId(42)". *)
C9_DebugNamedTypedId ==
    res.op = "debug" =>
        /\ ~res.f.alternate =>
            res.out = <<"T", "y", "p", "e", "d", "I", "d", "(">> \o res.raw \o <<")">>
        /\ res.f.alternate =>
            res.out = <<"T", "y", "p", "e", "d", "I", "d", "(", "\n", " ", " ", " ", " ">>
                        \o res.raw \o <<",", "\n", ")">>
        /\ (res.self.id = 42 /\ res.f = DefaultFormatter) =>
            res.out = <<"T", "y", "p", "e", "d", "I", "d", "(", "4", "2", ")">>

C9_Witness ==
    /\ res.op = "debug" /\ res.self.id = 42 /\ res.f = DefaultFormatter
    /\ res.raw = <<"4", "2">>
    /\ res.out = <<"T", "y", "p", "e", "d", "I", "d", "(", "4", "2", ")">>

(* C10: formatting a typed id for display produces exactly the text    *)
(* that formatting the raw value the same way produces. *)
C10_DisplaySameAsRaw ==
    res.op = "display" => res.out = res.raw

====
